---- MODULE Spec2Model ----
(***************************************************************************)
(* Model of the wdart lexer, src/src/lexer/tokenizer.rs.                   *)
(*                                                                         *)
(* A source text is a sequence of one-character strings.  Only ASCII       *)
(* characters are modelled, so a character is one byte and byte lengths    *)
(* are sequence lengths.  The recognizers are operators; the driver `lex`  *)
(* is a state machine that performs one loop iteration per step.  Each     *)
(* recognizer can also be called on the whole input as a step of its own.  *)
(***************************************************************************)
EXTENDS Integers, Sequences, FiniteSets, TLC

VARIABLES input, op, status, ret, remaining, row, col_start, col_end,
          is_line_start, tokens, iters

vars == <<input, op, status, ret, remaining, row, col_start, col_end,
          is_line_start, tokens, iters>>

\* ------------------------------------------------------------------ bounds
\* Longest enumerated input over ModelAlphabet.
MaxLen == 4
\* How far past the u8 capacity the long indentation runs of Init reach.
MaxOver == 2

\* Largest value of the u8 that Indentation carries.
U8Max == 255

\* ------------------------------------------------------- character classes
Lower == {"a","b","c","d","e","f","g","h","i","j","k","l","m",
          "n","o","p","q","r","s","t","u","v","w","x","y","z"}
Upper == {"A","B","C","D","E","F","G","H","I","J","K","L","M",
          "N","O","P","Q","R","S","T","U","V","W","X","Y","Z"}
Digits == <<"0","1","2","3","4","5","6","7","8","9">>

\* char::is_digit(10)
is_digit(ch) == \E i \in 1..10 : Digits[i] = ch
\* char::is_alphabetic, on ASCII
is_alphabetic(ch) == ch \in Lower \cup Upper
\* char::is_alphanumeric, on ASCII
is_alphanumeric(ch) == is_alphabetic(ch) \/ is_digit(ch)
\* The character U+000B (vertical tab), written literally.
VerticalTab == ""
\* char::is_whitespace, on ASCII: U+0009 to U+000D (\t, \n, vertical tab,
\* form feed, \r) and space
is_whitespace(ch) == ch \in {"\t", "\n", VerticalTab, "\f", "\r", " "}

\* CharExtension::is_ws_without_nl
is_ws_without_nl(ch) == is_whitespace(ch) /\ ch # "\n"

\* Value of a decimal digit character.
DigitVal(ch) == (CHOOSE i \in 1..10 : Digits[i] = ch) - 1

\* ----------------------------------------------------------------- results
NoKind == [type |-> "None", text |-> <<>>, num |-> <<0, 0>>, width |-> 0]
Identifier(t) == [type |-> "Identifier", text |-> t, num |-> <<0, 0>>, width |-> 0]
Number(v) == [type |-> "Number", text |-> <<>>, num |-> v, width |-> 0]
QuotedString(t) == [type |-> "QuotedString", text |-> t, num |-> <<0, 0>>, width |-> 0]
Indentation(w) == [type |-> "Indentation", text |-> <<>>, num |-> <<0, 0>>, width |-> w]
Fixed(name) == [type |-> name, text |-> <<>>, num |-> <<0, 0>>, width |-> 0]

\* Ok((kind, len)) and Err(e) of Result<(TokenKind, usize)>
Ok(kind, len) == [ok |-> TRUE, kind |-> kind, len |-> len, err |-> "none"]
Err(e) == [ok |-> FALSE, kind |-> NoKind, len |-> 0, err |-> e]

\* Token::new(kind, column_start, column_end, row)
Token(kind, cs, ce, r) ==
    [kind |-> kind, column_start |-> cs, column_end |-> ce, row |-> r]

\* &s[n..] for n <= s.len()
SliceFrom(s, n) == SubSeq(s, n + 1, Len(s))

\* ------------------------------------------------------------ span scanner
\* The closures handed to take_while, by name.  pred_holds(pred, ch, seen)
\* is the closure pred applied to ch after it accepted the characters of seen
\* (an FnMut closure's state is a function of the characters it accepted).
number_pred_any_dot(ch, seen) == is_digit(ch) \/ ch = "."

\* The closure of tokenize_number: dot_seen is set once a '.' was accepted.
number_pred(ch, seen) ==
    \/ is_digit(ch)
    \/ ch = "." /\ ~(\E i \in 1..Len(seen) : seen[i] = ".")

pred_holds(pred, ch, seen) ==
    CASE pred = "ident" -> is_alphanumeric(ch) \/ ch = "_"
      [] pred = "number" -> number_pred(ch, seen)
      [] pred = "inline_ws" -> ch # "\n" /\ is_whitespace(ch)
      [] pred = "ws" -> is_whitespace(ch)
      [] pred = "not_quote" -> ch # "\""

\* helpers::take_while(data, pred): the longest prefix of data whose
\* characters pred accepts, and its length.  The helper's source is not
\* part of tokenizer.rs.  It fails when nothing was consumed: on empty data
\* (the Span Scanner's contract) and when pred rejects the first character,
\* which the test tokenize_ident_cant_start_with_dot (line 28) requires and
\* the callers that turn its failure into a length of 0 (lines 74-77 and
\* 81-84) provide for.  The failure is reported as unexpected end of input,
\* the only failure the contract names.
take_while(data, pred) ==
    LET stop == {i \in 0..Len(data) :
                    \/ i = Len(data)
                    \/ ~pred_holds(pred, data[i + 1], SubSeq(data, 1, i))}
        n == CHOOSE i \in stop : \A j \in stop : i <= j
    IN  IF n = 0
        THEN [ok |-> FALSE, got |-> <<>>, len |-> 0, err |-> "UnexpectedEof"]
        ELSE [ok |-> TRUE, got |-> SubSeq(data, 1, n), len |-> n, err |-> "none"]

\* ------------------------------------------------------------- recognizers
tokenize_ident(inp) ==
    IF Len(inp) = 0 THEN Err("UnexpectedEof")
    ELSE IF is_digit(inp[1]) THEN Err("DigitStart")
    ELSE LET r == take_while(inp, "ident")
         IN  IF r.ok THEN Ok(Identifier(r.got), r.len) ELSE Err(r.err)

RECURSIVE DigitsValue(_)
\* Decimal value of a sequence of digit characters.
DigitsValue(ds) ==
    IF ds = <<>> THEN 0
    ELSE 10 * DigitsValue(SubSeq(ds, 1, Len(ds) - 1)) + DigitVal(ds[Len(ds)])

RECURSIVE Normalize(_, _)
\* mantissa * 10^-scale without trailing fractional zeros
Normalize(m, s) ==
    IF s > 0 /\ m % 10 = 0 THEN Normalize(m \div 10, s - 1) ELSE <<m, s>>

\* str::parse::<f64> on text made of digits and at most one '.': it fails
\* when there is no digit; the value is kept as <<mantissa, scale>>.
ParseF64(got) ==
    LET ds == SelectSeq(got, is_digit)
        dots == {i \in 1..Len(got) : got[i] = "."}
        scale == IF dots = {} THEN 0
                 ELSE Len(got) - (CHOOSE i \in dots : TRUE)
    IN  IF ds = <<>> \/ Cardinality(dots) > 1
           \/ \E i \in 1..Len(got) : ~is_digit(got[i]) /\ got[i] # "."
        THEN [ok |-> FALSE, value |-> <<0, 0>>]
        ELSE [ok |-> TRUE, value |-> Normalize(DigitsValue(ds), scale)]

tokenize_number(inp) ==
    LET r == take_while(inp, "number")
    IN  IF ~r.ok THEN Err(r.err)
        ELSE LET p == ParseF64(r.got)
             IN  IF p.ok THEN Ok(Number(p.value), r.len)
                 ELSE Err("ParseFloatError")

skip_whitespace_nl(inp) ==
    IF Len(inp) = 0 THEN 0
    ELSE IF ~is_whitespace(inp[1]) THEN 0
    ELSE LET r == take_while(inp, "ws")
         IN  IF r.ok THEN r.len ELSE 0

skip_whitespace(inp) ==
    IF Len(inp) = 0 THEN 0
    ELSE IF ~is_ws_without_nl(inp[1]) THEN 0
    ELSE LET r == take_while(inp, "inline_ws")
         IN  IF r.ok THEN r.len ELSE 0

capture_indentation_wrap(inp) ==
    LET r == take_while(inp, "ws")
        length == IF r.ok THEN r.len ELSE 0
    IN  Ok(Indentation(length % (U8Max + 1)), length)

capture_indentation(inp) ==
    LET r == take_while(inp, "ws")
        length == IF r.ok THEN r.len ELSE 0
    IN  IF length > U8Max THEN Err("TryFromIntError")
        ELSE Ok(Indentation(length), length)

fixed_token_no_dot(ch) ==
    CASE ch = "*" -> "Asterisk"
      [] ch = "=" -> "Equals"
      [] ch = "+" -> "Plus"
      [] ch = "/" -> "Slash"
      [] ch = "<" -> "LessThan"
      [] ch = ">" -> "GreaterThan"
      [] ch = "-" -> "Minus"
      [] ch = ":" -> "Colon"
      [] ch = "@" -> "At"
      [] ch = ")" -> "CloseParen"
      [] ch = "]" -> "CloseSquare"
      [] ch = "(" -> "OpenParen"
      [] ch = "[" -> "OpenSquare"
      [] ch = ";" -> "Semicolon"
      [] OTHER -> "None"

\* The one-byte arms of tokenize_single_token's match: the kind's name,
\* "None" when ch is not one of the fixed characters.
fixed_token(ch) ==
    CASE ch = "*" -> "Asterisk"
      [] ch = "=" -> "Equals"
      [] ch = "+" -> "Plus"
      [] ch = "/" -> "Slash"
      [] ch = "<" -> "LessThan"
      [] ch = ">" -> "GreaterThan"
      [] ch = "-" -> "Minus"
      [] ch = ":" -> "Colon"
      [] ch = "@" -> "At"
      [] ch = "." -> "Dot"
      [] ch = ")" -> "CloseParen"
      [] ch = "]" -> "CloseSquare"
      [] ch = "(" -> "OpenParen"
      [] ch = "[" -> "OpenSquare"
      [] ch = ";" -> "Semicolon"
      [] OTHER -> "None"

tokenize_quoted_one_quote(inp) ==
    LET r == take_while(SliceFrom(inp, 1), "not_quote")
    IN  IF r.ok THEN Ok(QuotedString(r.got), r.len + 1) ELSE Err(r.err)

\* The '"' arm of tokenize_single_token's match.
tokenize_quoted(inp) ==
    LET r == take_while(SliceFrom(inp, 1), "not_quote")
    IN  IF r.ok THEN Ok(QuotedString(r.got), r.len + 2) ELSE Err(r.err)

\* The arms are tried in the order of the match.  The guard of the arm
\* `c @ '_' | c if c.is_alphabetic()` applies to both alternatives, so the
\* arm is taken exactly when the character is alphabetic.
tokenize_single_token(inp) ==
    IF Len(inp) = 0 THEN Err("UnexpectedEof")
    ELSE LET next == inp[1]
         IN  CASE fixed_token(next) # "None" -> Ok(Fixed(fixed_token(next)), 1)
               [] fixed_token(next) = "None" /\ is_digit(next) -> tokenize_number(inp)
               [] fixed_token(next) = "None" /\ next = "\"" -> tokenize_quoted(inp)
               [] fixed_token(next) = "None" /\ is_alphabetic(next) -> tokenize_ident(inp)
               [] fixed_token(next) = "None" /\ next = "\n" -> capture_indentation(inp)
               [] OTHER -> Err("InvalidData")

\* ------------------------------------------------------------------ driver
lex_position_no_reset(kind, len_read, r, cs) ==
    IF kind.type = "Indentation"
    THEN [is_line_start |-> TRUE, row |-> r + 1, col_start |-> cs,
          col_end |-> cs + len_read]
    ELSE [is_line_start |-> FALSE, row |-> r, col_start |-> cs,
          col_end |-> cs + len_read]

\* The match on the token in lex: the line-start flag, row and columns the
\* token is pushed with.  is_line_start is FALSE at this point of the loop.
lex_position(kind, len_read, r, cs) ==
    IF kind.type = "Indentation"
    THEN [is_line_start |-> TRUE, row |-> r + 1, col_start |-> 1,
          col_end |-> 1 + len_read]
    ELSE [is_line_start |-> FALSE, row |-> r, col_start |-> cs,
          col_end |-> cs + len_read]

\* Bytes skipped at the head of a loop iteration.
lex_skip == IF ~is_line_start THEN skip_whitespace(remaining) ELSE 0

\* remaining after the skip at the head of a loop iteration
lex_rest == SliceFrom(remaining, lex_skip)

InLex == (status = "ready" /\ op = "none") \/ (status = "running" /\ op = "lex")

\* ---------------------------------------------------------------- inputs
ModelAlphabet == {"a", "1", "_", ".", "\"", " ", VerticalTab, "\n", "#"}

RECURSIVE Strings(_)
\* All texts over ModelAlphabet of length at most n.
Strings(n) ==
    IF n = 0 THEN {<<>>}
    ELSE LET shorter == Strings(n - 1)
         IN  shorter \cup {Append(s, c) : s \in {t \in shorter : Len(t) = n - 1},
                                          c \in ModelAlphabet}

\* The texts of the source's tests and of the documented examples, a quoted
\* string after a skipped space, and texts with vertical tabs and the other
\* whitespace characters.
TestInputs ==
    { <<"F">>, <<"F","o","o">>, <<"F","o","o","_","b","a","r">>,
      <<"7","F","o","o","_","b","a","r">>,
      <<".","F","o","o","_","b","a","r">>,
      <<"1">>, <<"1","2","3","4","5","6","7","8","9","0">>,
      <<"1","2",".","3">>, <<"1","2",".","3",".","4","5","6">>,
      <<"a","s","d","f","g","h","j">>,
      <<"1","2","3",".","4","a","s","d","f","g","h","j">>,
      <<" ","\t","\n","\r","1","2","3">>,
      <<"H","e","l","l","o"," ","W","o","r","l","d">>,
      <<"\"","a","b","c">>, <<"_","f","o","o">>,
      <<"a","\n","\n","b">>, <<"a"," ","\"","b","c","\"">>,
      <<VerticalTab,"a">>, <<"a",VerticalTab,"b">>, <<"a",VerticalTab>>,
      <<"\n",VerticalTab,"a">>, <<"a",VerticalTab,"\"","x">>,
      <<"a"," ",VerticalTab,"\t","b","\n","\f","\r","c">> }

\* A newline followed by k spaces, then tail: whitespace runs of k + 1
\* characters around the capacity of the u8 width.
IndentInputs ==
    { <<"\n">> \o [i \in 1..k |-> " "] \o tail :
        k \in (U8Max - 3)..(U8Max + MaxOver - 1), tail \in {<<>>, <<"a">>} }

Inputs == Strings(MaxLen) \cup TestInputs \cup IndentInputs

\* --------------------------------------------------------------- actions
\* lex lines 166-171: the locals before the loop; no call made yet.
Init ==
    /\ input \in Inputs
    /\ op = "none"
    /\ status = "ready"
    /\ ret = Err("none")
    /\ remaining = input
    /\ row = 1
    /\ col_start = 1
    /\ col_end = 1
    /\ is_line_start = TRUE
    /\ tokens = <<>>
    /\ iters = <<>>

\* One iteration record: bytes skipped, then bytes of the token (if any).
Iter(ws, len, tok) == [ws |-> ws, len |-> len, tok |-> tok]

\* The iteration that finds nothing left and breaks: lex returns Ok(tokens).
LexBreak ==
    /\ InLex
    /\ lex_rest = <<>>
    /\ op' = "lex"
    /\ status' = "done"
    /\ ret' = [ok |-> TRUE, tokens |-> tokens, err |-> "none"]
    /\ remaining' = lex_rest
    /\ col_start' = col_start + lex_skip
    /\ is_line_start' = FALSE
    /\ iters' = Append(iters, Iter(lex_skip, 0, FALSE))
    /\ UNCHANGED <<input, row, col_end, tokens>>

\* The iteration whose tokenize_single_token fails: `?` returns the error.
LexError ==
    /\ InLex
    /\ lex_rest # <<>>
    /\ ~tokenize_single_token(lex_rest).ok
    /\ op' = "lex"
    /\ status' = "error"
    /\ ret' = [ok |-> FALSE, tokens |-> <<>>,
               err |-> tokenize_single_token(lex_rest).err]
    /\ remaining' = lex_rest
    /\ col_start' = col_start + lex_skip
    /\ is_line_start' = FALSE
    /\ iters' = Append(iters, Iter(lex_skip, 0, FALSE))
    /\ UNCHANGED <<input, row, col_end, tokens>>

\* The iteration that pushes a token and advances past it.
LexToken ==
    /\ InLex
    /\ lex_rest # <<>>
    /\ LET t == tokenize_single_token(lex_rest)
           p == lex_position(t.kind, t.len, row, col_start + lex_skip)
       IN  /\ t.ok
           /\ t.len <= Len(lex_rest)
           /\ op' = "lex"
           /\ status' = "running"
           /\ tokens' = Append(tokens, Token(t.kind, p.col_start, p.col_end, p.row))
           /\ row' = p.row
           /\ is_line_start' = p.is_line_start
           /\ col_end' = p.col_end
           /\ col_start' = p.col_end
           /\ remaining' = SliceFrom(lex_rest, t.len)
           /\ iters' = Append(iters, Iter(lex_skip, t.len, TRUE))
    /\ UNCHANGED <<input, ret>>

\* The iteration that pushes a token whose length exceeds what remains:
\* the slice &remaining[len_read..] panics.
LexPanic ==
    /\ InLex
    /\ lex_rest # <<>>
    /\ LET t == tokenize_single_token(lex_rest)
           p == lex_position(t.kind, t.len, row, col_start + lex_skip)
       IN  /\ t.ok
           /\ t.len > Len(lex_rest)
           /\ op' = "lex"
           /\ status' = "panic"
           /\ tokens' = Append(tokens, Token(t.kind, p.col_start, p.col_end, p.row))
           /\ row' = p.row
           /\ is_line_start' = p.is_line_start
           /\ col_end' = p.col_end
           /\ col_start' = p.col_end
           /\ remaining' = lex_rest
           /\ iters' = Append(iters, Iter(lex_skip, t.len, TRUE))
    /\ UNCHANGED <<input, ret>>

Returned(name, value) ==
    /\ status = "ready"
    /\ op = "none"
    /\ op' = name
    /\ status' = "returned"
    /\ ret' = value
    /\ UNCHANGED <<input, remaining, row, col_start, col_end, is_line_start,
                   tokens, iters>>

CallSkipWhitespace == Returned("skip_whitespace", skip_whitespace(input))
CallTokenizeIdent == Returned("tokenize_ident", tokenize_ident(input))
CallTokenizeNumber == Returned("tokenize_number", tokenize_number(input))
CallCaptureIndentation == Returned("capture_indentation", capture_indentation(input))
CallTokenizeSingleToken == Returned("tokenize_single_token", tokenize_single_token(input))

Next ==
    \/ LexBreak
    \/ LexError
    \/ LexToken
    \/ LexPanic
    \/ CallSkipWhitespace
    \/ CallTokenizeIdent
    \/ CallTokenizeNumber
    \/ CallCaptureIndentation
    \/ CallTokenizeSingleToken

Spec == Init /\ [][Next]_vars

\* ------------------------------------------------- reference definitions
RECURSIVE RunLen(_, _)
\* Length of the longest prefix of s whose characters are all in set.
RunLen(s, set) ==
    IF s = <<>> \/ s[1] \notin set THEN 0 ELSE 1 + RunLen(Tail(s), set)

AsciiDigits == {Digits[i] : i \in 1..10}
\* White_Space characters below U+0080: U+0009 to U+000D and U+0020.
AllWs == {" ", "\t", "\n", "\r", "\f", VerticalTab}
InlineWs == AllWs \ {"\n"}
IdentChars == Lower \cup Upper \cup AsciiDigits \cup {"_"}

\* Longest prefix of digits and at most one '.'.
NumRun(s) ==
    LET a == RunLen(s, AsciiDigits)
        rest == SubSeq(s, a + 1, Len(s))
    IN  IF rest # <<>> /\ rest[1] = "."
        THEN a + 1 + RunLen(Tail(rest), AsciiDigits)
        ELSE a

RECURSIVE SumIters(_)
\* Bytes skipped and consumed by the iterations of its.
SumIters(its) ==
    IF its = <<>> THEN 0
    ELSE its[1].ws + its[1].len + SumIters(Tail(its))

\* Offset in input of the first byte of the k-th token.
TokStart(k) == SumIters(SubSeq(iters, 1, k - 1)) + iters[k].ws
\* Input text of the k-th token and of the whitespace skipped before it.
TokText(k) == SubSeq(input, TokStart(k) + 1, TokStart(k) + iters[k].len)
WsText(k) == SubSeq(input, TokStart(k) - iters[k].ws + 1, TokStart(k))

\* The token kind is the one its input text stands for.
SpanAgrees(kind, text) ==
    CASE kind.type = "Identifier" -> kind.text = text
      [] kind.type = "QuotedString" -> text = <<"\"">> \o kind.text \o <<"\"">>
      [] kind.type = "Indentation" ->
            kind.width = Len(text) /\ \A i \in 1..Len(text) : text[i] \in AllWs
      [] kind.type = "Number" ->
            /\ text # <<>>
            /\ NumRun(text) = Len(text)
            /\ ParseF64(text).value = kind.num
      [] OTHER -> Len(text) = 1 /\ fixed_token(text[1]) = kind.type

Newlines(text) == Cardinality({i \in 1..Len(text) : text[i] = "\n"})

T_SkipWs == <<" ", "\t", "\n", "\r", "1", "2", "3">>
T_DotIdent == <<".", "F", "o", "o", "_", "b", "a", "r">>
T_TwoDots == <<"1", "2", ".", "3", ".", "4", "5", "6">>
T_NumIdent == <<"1", "2", "3", ".", "4", "a", "s", "d", "f", "g", "h", "j">>

\* ------------------------------------------------------------------ claims

\* C1: skip_whitespace returns the length of the longest prefix made of
\* whitespace other than '\n' (0 on empty input or when the first character
\* is '\n' or not whitespace); on " \t\n\r123" it returns 2.
C1_SkipWhitespace ==
    op = "skip_whitespace" =>
        /\ ret = RunLen(input, InlineWs)
        /\ input = T_SkipWs => ret = 2

C1_Witness == op = "skip_whitespace" /\ input = T_SkipWs /\ ret = 2

\* C2: tokenize_single_token on an input whose first character is alphabetic
\* or '_' returns Identifier of the maximal run of alphanumerics and '_'.
C2_Claim ==
    (/\ op = "tokenize_single_token"
     /\ input # <<>>
     /\ (is_alphabetic(input[1]) \/ input[1] = "_"))
    => /\ ret.ok
       /\ ret.kind = Identifier(SubSeq(input, 1, RunLen(input, IdentChars)))
       /\ ret.len = RunLen(input, IdentChars)

\* C3: when lex succeeds, the skipped and consumed spans are contiguous from
\* byte 0 to the end of the input, their lengths sum to the input's length,
\* every skipped span is inline whitespace and every token is the one its
\* span's text stands for.
C3_RoundTrip ==
    (op = "lex" /\ status = "done") =>
        /\ SumIters(iters) = Len(input)
        /\ remaining = <<>>
        /\ Len(iters) = Len(tokens) + 1
        /\ \A k \in 1..Len(tokens) :
            /\ iters[k].tok
            /\ TokStart(k) + iters[k].len <= Len(input)
            /\ SpanAgrees(tokens[k].kind, TokText(k))
            /\ \A i \in 1..iters[k].ws : WsText(k)[i] \in InlineWs

C3_Witness ==
    /\ op = "lex" /\ status = "done"
    /\ Len(tokens) >= 2
    /\ \E k \in 1..Len(tokens) : iters[k].ws > 0
    /\ \E k \in 1..Len(tokens) : tokens[k].kind.type = "QuotedString"

\* Identifier text: an alphabetic first character, then alphanumerics or '_'.
AlphaIdentText(text) ==
    text # <<>> /\ is_alphabetic(text[1]) /\ RunLen(text, IdentChars) = Len(text)
\* Identifier text that may also start with '_'.
IdentText(text) ==
    /\ text # <<>>
    /\ (is_alphabetic(text[1]) \/ text[1] = "_")
    /\ RunLen(text, IdentChars) = Len(text)

\* C4 as stated: lex on '.' followed by identifier text ends in an error and
\* returns no token sequence.
C4_Claim ==
    (/\ op = "lex" /\ status \in {"done", "error", "panic"}
     /\ input # <<>> /\ input[1] = "." /\ IdentText(Tail(input)))
    => status = "error" /\ ~ret.ok /\ ret.tokens = <<>>

\* C4 amended: lex on '.' followed by identifier text that starts with an
\* alphabetic character succeeds; it returns Dot at row 1, columns 1 to 2,
\* followed by the Identifier of the rest of the input.
C4_DotThenIdentifier ==
    (op = "lex" /\ input # <<>> /\ input[1] = "." /\ AlphaIdentText(Tail(input)))
    => /\ status \in {"running", "done"}
       /\ tokens # <<>>
       /\ tokens[1] = Token(Fixed("Dot"), 1, 2, 1)
       /\ status = "done" =>
            ret = [ok |-> TRUE, err |-> "none",
                   tokens |-> << Token(Fixed("Dot"), 1, 2, 1),
                                 Token(Identifier(Tail(input)), 2,
                                       Len(input) + 1, 1) >>]

C4_Witness == op = "lex" /\ status = "done" /\ input = T_DotIdent /\ ret.ok

\* C5: when lex succeeds, each non-Indentation token's row is 1 plus the
\* number of newlines in the input before the token's first byte.
C5_Claim ==
    (op = "lex" /\ status = "done") =>
        \A k \in 1..Len(tokens) :
            tokens[k].kind.type # "Indentation" =>
                tokens[k].row = 1 + Newlines(SubSeq(input, 1, TokStart(k)))

\* C6: when lex succeeds, every token has column_end = column_start + its
\* consumed length; the first token and every Indentation token start at
\* column 1; every other token starts at the previous token's column_end plus
\* the inline whitespace skipped between them.  "F" gives columns 1 to 2 on
\* row 1 and "Foo_bar" columns 1 to 8.
C6_Columns ==
    (op = "lex" /\ status = "done") =>
        /\ \A k \in 1..Len(tokens) :
            /\ tokens[k].column_end = tokens[k].column_start + iters[k].len
            /\ (k = 1 \/ tokens[k].kind.type = "Indentation")
                  => tokens[k].column_start = 1
            /\ (k > 1 /\ tokens[k].kind.type # "Indentation")
                  => tokens[k].column_start =
                        tokens[k - 1].column_end + iters[k].ws
        /\ input = <<"F">> =>
              tokens = << Token(Identifier(<<"F">>), 1, 2, 1) >>
        /\ input = <<"F", "o", "o", "_", "b", "a", "r">> =>
              tokens = << Token(Identifier(input), 1, 8, 1) >>

C6_Witness ==
    /\ op = "lex" /\ status = "done"
    /\ \E k \in 2..Len(tokens) : tokens[k].kind.type = "Indentation"
    /\ \E k \in 2..Len(tokens) :
          tokens[k].kind.type # "Indentation" /\ iters[k].ws > 0

\* C7: tokenize_number on an input starting with a digit consumes exactly the
\* longest prefix of digits and at most one '.': "12.3.456" consumes 4 bytes
\* and gives 12.3, and lex on "123.4asdfghj" gives Number(123.4) followed at
\* once by Identifier("asdfghj").
C7_NumberRun ==
    /\ (op = "tokenize_number" /\ input # <<>> /\ is_digit(input[1])) =>
          /\ ret.ok
          /\ ret.len = NumRun(input)
          /\ ret.kind.type = "Number"
          /\ input = T_TwoDots => ret.len = 4 /\ ret.kind = Number(<<123, 1>>)
          /\ input = T_NumIdent => ret.len = 5
    /\ (op = "lex" /\ status = "done" /\ input = T_NumIdent) =>
          tokens = << Token(Number(<<1234, 1>>), 1, 6, 1),
                      Token(Identifier(SubSeq(input, 6, 12)), 6, 13, 1) >>

C7_Witness ==
    op = "tokenize_number" /\ input = T_TwoDots /\ ret.ok /\ ret.len = 4

\* C8: capture_indentation on an input starting with '\n' consumes the
\* maximal run of whitespace; a run of at most 255 gives Indentation(run)
\* with consumed length run, a longer run fails, and then lex fails too.
C8_IndentationWidth ==
    (input # <<>> /\ input[1] = "\n") =>
        /\ op = "capture_indentation" =>
              IF RunLen(input, AllWs) <= U8Max
              THEN ret = Ok(Indentation(RunLen(input, AllWs)), RunLen(input, AllWs))
              ELSE ~ret.ok
        /\ (op = "lex" /\ RunLen(input, AllWs) > U8Max) =>
              status = "error" /\ ~ret.ok /\ ret.tokens = <<>>

C8_Witness ==
    /\ op = "capture_indentation"
    /\ input # <<>> /\ input[1] = "\n"
    /\ RunLen(input, AllWs) = U8Max + 1
    /\ ~ret.ok

\* C9: every loop iteration of lex either breaks with nothing remaining and
\* returns the tokens, or returns an error with no tokens, or appends a token
\* and leaves strictly less input remaining.
C9_Claim ==
    [][ op' = "lex" =>
          \/ status' = "done" /\ remaining' = <<>> /\ ret'.ok
                /\ ret'.tokens = tokens /\ tokens' = tokens
          \/ status' = "error" /\ ~ret'.ok /\ ret'.tokens = <<>>
                /\ tokens' = tokens
          \/ status' = "running" /\ Len(tokens') = Len(tokens) + 1
                /\ Len(remaining') < Len(remaining) ]_vars

\* C10: the length tokenize_single_token returns never exceeds its input's
\* length, a QuotedString's span ends with a '"' of the input, and lex never
\* advances past the end of the input.
C10_Claim ==
    /\ (op = "tokenize_single_token" /\ ret.ok) =>
          /\ ret.len <= Len(input)
          /\ ret.kind.type = "QuotedString" => input[ret.len] = "\""
    /\ op = "lex" => status # "panic"
====
